---- MODULE Spec2Model ----
(***************************************************************************)
(* A state-machine model of jedi_language_server/server.py: the            *)
(* initialize handshake of JediLanguageServerProtocol, and the request and  *)
(* notification handlers registered on SERVER.  The analysis engine (jedi)  *)
(* and the transport framework (pygls) are the environment: what the engine *)
(* returns for a request is an input of the handler's action, drawn from a  *)
(* bounded set.                                                             *)
(***************************************************************************)
EXTENDS Integers, Sequences, FiniteSets, TLC

VARIABLES
    initialized,              \* the initialize request has been handled
    initialization_options,   \* server.initialization_options
    project,                  \* server.project
    features,                 \* handlers registered by lsp_initialize
    root_path,                \* server.workspace.root_path
    client_capabilities,      \* server.client_capabilities
    messages,                 \* window/showMessage and window/logMessage sent
    most_recent_completions,  \* the completions cache kept in jedi_utils
    last                      \* the request handled last, with its outcome

vars == <<initialized, initialization_options, project, features, root_path,
          client_capabilities, messages, most_recent_completions, last>>

----------------------------------------------------------------------------
(* Bounds *)

\* The engine returns at most this many results for one query.
MaxResults == 2

----------------------------------------------------------------------------
(* Strings and paths.  A str is a sequence of characters; a pathlib.Path is *)
(* a sequence of components, each a str.                                    *)

Slash == <<"/">>

\* s.startswith(prefix)
StartsWith(s, prefix) ==
    /\ Len(prefix) <= Len(s)
    /\ SubSeq(s, 1, Len(prefix)) = prefix

\* sub in s
Contains(s, sub) ==
    \E i \in 1..(Len(s) - Len(sub) + 1) : SubSeq(s, i, i + Len(sub) - 1) = sub

\* str(path) of an absolute POSIX path: "/" before every component
RECURSIVE PathStr(_)
PathStr(parts) ==
    IF parts = <<>> THEN <<>>
    ELSE Slash \o Head(parts) \o PathStr(Tail(parts))

\* str(n) for a natural number, as a sequence of digits
RECURSIVE Str(_)
Str(n) == IF n < 10 THEN <<n>> ELSE Str(n \div 10) \o <<n % 10>>

\* s.zfill(width)
RECURSIVE zfill(_, _)
zfill(s, width) == IF Len(s) >= width THEN s ELSE zfill(<<0>> \o s, width)

----------------------------------------------------------------------------
(* Values of the environment *)

W     == <<"w">>                  \* the workspace directory /w
W2    == <<"w", "2">>             \* a sibling directory /w2
Venv  == <<"v", "e", "n", "v">>   \* a virtual environment directory
NoPath == <<>>                    \* module_path is None
NoRoot == <<>>                    \* root_path is None

\* jedi names: name, module_path, whether the name has a position (line and
\* column, so that the jedi_utils converters yield a value), and type
NameA == [name |-> "a", module_path |-> <<W, <<"a">>>>,       pos |-> TRUE,  type |-> "function"]
NameB == [name |-> "b", module_path |-> <<W2, <<"b">>>>,      pos |-> TRUE,  type |-> "function"]
NameC == [name |-> "c", module_path |-> <<W, Venv, <<"c">>>>, pos |-> TRUE,  type |-> "class"]
NameD == [name |-> "d", module_path |-> NoPath,               pos |-> FALSE, type |-> "function"]
NameE == [name |-> "e", module_path |-> <<W, <<"e">>>>,       pos |-> FALSE, type |-> "param"]
NameF == [name |-> "f", module_path |-> <<W, <<"f">>>>,       pos |-> TRUE,  type |-> "statement"]

\* the engine's index, in the order the engine reports names
EngineNames == <<NameA, NameB, NameC, NameD, NameE, NameF>>

\* the names the engine reports for one query: at most MaxResults of `among`,
\* in the engine's order
Results(among) ==
    { SelectSeq(EngineNames, LAMBDA n : n \in S) :
        S \in { T \in SUBSET among : Cardinality(T) <= MaxResults } }

MarkupKinds == {"plaintext", "markdown"}
NoKind == "None"                  \* markup_kind_preferred is None

None == [kind |-> "None", items |-> <<>>]      \* a handler returning None

----------------------------------------------------------------------------
(* Initialization options and client capabilities *)

\* InitializationOptions(): every field at its default
DefaultOptions ==
    [ diagnostics |-> [enable |-> TRUE, did_open |-> TRUE,
                       did_change |-> TRUE, did_save |-> TRUE],
      hover |-> [enable |-> TRUE],
      markup_kind_preferred |-> NoKind,
      completion |-> [disable_snippets |-> FALSE, resolve_eagerly |-> FALSE,
                      ignore_patterns |-> <<>>],
      code_action |-> [name_extract_variable |-> "jls_extract_var",
                       name_extract_function |-> "jls_extract_def"],
      workspace |-> [environment_path |-> "None", extra_paths |-> <<>>,
                     symbols |-> [max_symbols |-> 20,
                                  ignore_folders |-> <<Venv>>]] ]

\* the options not yet assigned (the attribute is only annotated on the class)
Unset == [unset |-> TRUE]

\* a capability the client does not advertise, and one it does
Absent(default) == [present |-> FALSE, value |-> default]
Advertised(v) == [present |-> TRUE, value |-> v]

DefaultCapabilities ==
    [ snippet_support |-> Absent(FALSE),
      documentation_format |-> Absent(<<>>),
      hierarchical_document_symbol_support |-> Absent(FALSE) ]

\* client_capabilities.get_capability(field, default)
get_capability(capability, default) ==
    IF capability.present THEN capability.value ELSE default

\* What the client sends as initializationOptions: nothing, a value that
\* validates (the fields it leaves out take their defaults), or a value that
\* does not validate.
Given(options) == [given |-> TRUE, valid |-> TRUE, value |-> options]
NotGiven == [given |-> FALSE, valid |-> TRUE, value |-> DefaultOptions]
Malformed(options) == [given |-> TRUE, valid |-> FALSE, value |-> options]

DiagnosticsOptions ==
    { [DefaultOptions EXCEPT !.diagnostics =
          [enable |-> e, did_open |-> o, did_change |-> c, did_save |-> s]] :
        e \in BOOLEAN, o \in BOOLEAN, c \in BOOLEAN, s \in BOOLEAN }

MarkupOptions ==
    { [DefaultOptions EXCEPT !.markup_kind_preferred = k] :
        k \in MarkupKinds \cup {NoKind} }

DocumentationFormats ==
    { Absent(<<>>), Advertised(<<>>), Advertised(<<"plaintext">>),
      Advertised(<<"markdown">>), Advertised(<<"markdown", "plaintext">>) }

\* a compiled ignore pattern is the set of completion names it matches
UnderscorePattern == {"_p"}

CompletionOptions ==
    { [DefaultOptions EXCEPT !.completion.disable_snippets = d] : d \in BOOLEAN }
    \cup { [DefaultOptions EXCEPT !.completion.resolve_eagerly = TRUE],
           [DefaultOptions EXCEPT !.completion.ignore_patterns = <<UnderscorePattern>>] }

SymbolsOptions ==
    { [DefaultOptions EXCEPT !.workspace.symbols =
          [max_symbols |-> m, ignore_folders |-> f]] :
        m \in -1..MaxResults, f \in {<<>>, <<Venv>>} }

OtherOptions ==
    { [DefaultOptions EXCEPT !.hover.enable = FALSE],
      [DefaultOptions EXCEPT !.workspace.environment_path = "/env",
                             !.workspace.extra_paths = <<"/lib">>] }

\* The initialize requests of the model: initializationOptions, the client's
\* capabilities and the workspace root.
Request(raw, capabilities, root) ==
    [initialization_options |-> raw, capabilities |-> capabilities, root_path |-> root]

RootW == PathStr(<<W>>)

InitializeParams ==
    { Request(Given(o), DefaultCapabilities, RootW) : o \in DiagnosticsOptions }
    \cup { Request(Given(o), [DefaultCapabilities EXCEPT !.documentation_format = f], RootW) :
             o \in MarkupOptions, f \in DocumentationFormats }
    \cup { Request(Given(o), [DefaultCapabilities EXCEPT !.snippet_support = s], RootW) :
             o \in CompletionOptions,
             s \in {Absent(FALSE), Advertised(FALSE), Advertised(TRUE)} }
    \cup { Request(Given(o), DefaultCapabilities, RootW) : o \in SymbolsOptions }
    \cup { Request(Given(o), DefaultCapabilities, r) :
             o \in OtherOptions, r \in {NoRoot, RootW} }
    \cup { Request(NotGiven,
                   [DefaultCapabilities EXCEPT
                       !.hierarchical_document_symbol_support = Advertised(TRUE)], r) :
             r \in {NoRoot, RootW} }
    \cup { Request(Malformed(o), DefaultCapabilities, RootW) :
             o \in { [DefaultOptions EXCEPT !.diagnostics.enable = FALSE,
                                            !.hover.enable = FALSE],
                     [DefaultOptions EXCEPT !.markup_kind_preferred = "html"] } }

----------------------------------------------------------------------------
(* lsp_initialize *)

\* InitializationOptions.parse_obj({} if options is None else options)
parse_obj(raw) ==
    IF raw.valid THEN [raised |-> "", value |-> raw.value]
    ELSE [raised |-> "ValidationError", value |-> Unset]

InvalidOptionsMessage ==
    [message |-> "Invalid InitializationOptions, using defaults", msg_type |-> "Error"]

\* ParseInitializationOptions with the fallback assignment left out: the
\* rejected value is kept
ParseInitializationOptions_KeepRejected(raw) ==
    LET parsed == parse_obj(raw) IN
    IF parsed.raised = "ValidationError"
    THEN [options |-> raw.value,
          shown |-> <<InvalidOptionsMessage>>, logged |-> <<InvalidOptionsMessage>>]
    ELSE [options |-> parsed.value, shown |-> <<>>, logged |-> <<>>]

\* the try/except around parse_obj: the options the server keeps, and the
\* messages it shows and logs
ParseInitializationOptions(raw) ==
    LET parsed == parse_obj(raw) IN
    IF parsed.raised = "ValidationError"
    THEN [options |-> DefaultOptions,
          shown |-> <<InvalidOptionsMessage>>, logged |-> <<InvalidOptionsMessage>>]
    ELSE [options |-> parsed.value, shown |-> <<>>, logged |-> <<>>]

\* the handlers chosen for the four text document notifications, and hover
did_open_handler(diagnostics) ==
    IF diagnostics.enable /\ diagnostics.did_open
    THEN "did_open_diagnostics" ELSE "did_open_default"

\* did_change_handler without the test of diagnostics.enable
did_change_handler_ToggleOnly(diagnostics) ==
    IF diagnostics.did_change
    THEN "did_change_diagnostics" ELSE "did_change_default"

did_change_handler(diagnostics) ==
    IF diagnostics.enable /\ diagnostics.did_change
    THEN "did_change_diagnostics" ELSE "did_change_default"

did_save_handler(diagnostics) ==
    IF diagnostics.enable /\ diagnostics.did_save
    THEN "did_save_diagnostics" ELSE "did_save_default"

\* did_close_handler chosen the way the other three handlers are, with a toggle
did_close_handler_Toggled(diagnostics) ==
    IF diagnostics.enable /\ diagnostics.did_save
    THEN "did_close_diagnostics" ELSE "did_close_default"

did_close_handler(diagnostics) ==
    IF diagnostics.enable THEN "did_close_diagnostics" ELSE "did_close_default"

NoFeatures ==
    [did_open |-> "", did_change |-> "", did_save |-> "", did_close |-> "",
     hover |-> FALSE]

RegisterFeatures(options) ==
    [did_open |-> did_open_handler(options.diagnostics),
     did_change |-> did_change_handler(options.diagnostics),
     did_save |-> did_save_handler(options.diagnostics),
     did_close |-> did_close_handler(options.diagnostics),
     hover |-> options.hover.enable]

\* server.project is None
NoProject == [none |-> TRUE]

\* MakeProject without the test of the workspace root
MakeProject_Always(root, options) ==
    [path |-> root,
     environment_path |-> options.workspace.environment_path,
     added_sys_path |-> options.workspace.extra_paths,
     smart_sys_path |-> TRUE,
     load_unsafe_extensions |-> FALSE]

\* Project(...) if server.workspace.root_path else None
MakeProject(root, options) ==
    IF root # NoRoot
    THEN [path |-> root,
          environment_path |-> options.workspace.environment_path,
          added_sys_path |-> options.workspace.extra_paths,
          smart_sys_path |-> TRUE,
          load_unsafe_extensions |-> FALSE]
    ELSE NoProject

----------------------------------------------------------------------------
(* Helpers of the handlers *)

Range(s) == { s[i] : i \in 1..Len(s) }

\* a converter of jedi_utils returning None
NoValue == [none |-> TRUE]

\* jedi_utils.lsp_range(name): None for a name without a position
lsp_range(name) ==
    IF name.pos THEN [none |-> FALSE, of |-> name.name] ELSE NoValue

\* jedi_utils.lsp_location(name): None for a name without a module path or
\* without a position
lsp_location(name) ==
    IF name.module_path # NoPath /\ name.pos
    THEN [none |-> FALSE, of |-> name.name] ELSE NoValue

\* jedi_utils.lsp_symbol_information(name): None for a name without a position
lsp_symbol_information(name) ==
    IF name.pos THEN [none |-> FALSE, of |-> name.name] ELSE NoValue

\* jedi_utils.lsp_document_symbols(names): the symbols of the names that have
\* a position and are no parameters
lsp_document_symbols(names) ==
    LET shown == SelectSeq(names, LAMBDA n : n.pos /\ n.type # "param")
    IN  [i \in 1..Len(shown) |-> lsp_symbol_information(shown[i])]

NotNone(values) == SelectSeq(values, LAMBDA v : v # NoValue)

\* a handler's result: the exception that left it ("" when it returned) and
\* the value it returned
Returned(response) == [raised |-> "", response |-> response]
Raised(exception) == [raised |-> exception, response |-> None]

\* xs if xs else None
ListOrNone(kind, xs) == IF xs # <<>> THEN [kind |-> kind, items |-> xs] ELSE None

----------------------------------------------------------------------------
(* _choose_markup *)

\* the preferred kind when the client supports it, else the first supported
\* kind; markup_supported[0] raises IndexError on an empty list
_choose_markup(options, capabilities) ==
    LET markup_preferred == options.markup_kind_preferred
        markup_supported == get_capability(capabilities.documentation_format,
                                           <<"plaintext">>)
    IN  IF markup_preferred \in Range(markup_supported)
        THEN [raised |-> "", kind |-> markup_preferred]
        ELSE IF markup_supported = <<>>
             THEN [raised |-> "IndexError", kind |-> ""]
             ELSE [raised |-> "", kind |-> markup_supported[1]]

----------------------------------------------------------------------------
(* Completion *)

\* jedi_utils.lsp_completion_item_resolve: looks the item's label up in the
\* completions cache
lsp_completion_item_resolve(cache, label, markup_kind) ==
    IF label \in cache
    THEN Returned([kind |-> "CompletionItem",
                   items |-> <<[label |-> label, documentation |-> markup_kind]>>])
    ELSE Raised("KeyError")

\* completion_item_resolve
completion_item_resolve(options, capabilities, cache, label) ==
    LET markup == _choose_markup(options, capabilities) IN
    IF markup.raised # "" THEN Raised(markup.raised)
    ELSE lsp_completion_item_resolve(cache, label, markup.kind)

\* the completions kept after the ignore patterns
FilterCompletions(ignore_patterns, completions_jedi_raw) ==
    IF ignore_patterns = <<>>
    THEN completions_jedi_raw
    ELSE SelectSeq(completions_jedi_raw,
                   LAMBDA comp : ~ \E i \in 1..Len(ignore_patterns) :
                                       comp \in ignore_patterns[i])

\* EnableSnippets without the test of the import context
EnableSnippets_AnyContext(options, capabilities, is_import_context) ==
    /\ get_capability(capabilities.snippet_support, FALSE)
    /\ ~ options.completion.disable_snippets

\* enable_snippets
EnableSnippets(options, capabilities, is_import_context) ==
    /\ get_capability(capabilities.snippet_support, FALSE)
    /\ ~ options.completion.disable_snippets
    /\ ~ is_import_context

\* completion without the call of clear_completions_cache
completion_NoClear(options, capabilities, cache, completions_jedi_raw, is_import_context) ==
    LET completions_jedi ==
            FilterCompletions(options.completion.ignore_patterns, completions_jedi_raw)
        markup == _choose_markup(options, capabilities)
        enable_snippets == EnableSnippets(options, capabilities, is_import_context)
        total_completion_chars == Len(Str(Len(completions_jedi_raw)))
        completion_items ==
            [count \in 1..Len(completions_jedi) |->
                [label |-> completions_jedi[count],
                 enable_snippets |-> enable_snippets,
                 resolved |-> options.completion.resolve_eagerly,
                 markup_kind |-> markup.kind,
                 sort_append_text |-> zfill(Str(count - 1), total_completion_chars)]]
    IN  IF markup.raised # ""
        THEN [result |-> Raised(markup.raised), cache |-> cache]
        ELSE [result |-> Returned(ListOrNone("CompletionList", completion_items)),
              cache |-> cache \cup Range(completions_jedi)]

\* completion: the result, and the completions cache it leaves
completion(options, capabilities, cache, completions_jedi_raw, is_import_context) ==
    LET completions_jedi ==
            FilterCompletions(options.completion.ignore_patterns, completions_jedi_raw)
        markup == _choose_markup(options, capabilities)
        enable_snippets == EnableSnippets(options, capabilities, is_import_context)
        total_completion_chars == Len(Str(Len(completions_jedi_raw)))
        completion_items ==
            [count \in 1..Len(completions_jedi) |->
                [label |-> completions_jedi[count],
                 enable_snippets |-> enable_snippets,
                 resolved |-> options.completion.resolve_eagerly,
                 markup_kind |-> markup.kind,
                 sort_append_text |-> zfill(Str(count - 1), total_completion_chars)]]
    IN  IF markup.raised # ""
        THEN [result |-> Raised(markup.raised), cache |-> cache]
        ELSE [result |-> Returned(ListOrNone("CompletionList", completion_items)),
              cache |-> Range(completions_jedi)]

----------------------------------------------------------------------------
(* Requests answered from the engine's names *)

\* signature_help
signature_help(options, capabilities, signatures_jedi) ==
    LET markup == _choose_markup(options, capabilities)
        signatures ==
            [i \in 1..Len(signatures_jedi) |->
                [label |-> signatures_jedi[i], documentation |-> markup.kind]]
    IN  IF markup.raised # "" THEN Raised(markup.raised)
        ELSE Returned(ListOrNone("SignatureHelp", signatures))

\* [jedi_utils.lsp_location(name) for name in names]
Locations(names) == [i \in 1..Len(names) |-> lsp_location(names[i])]

\* [jedi_utils.lsp_symbol_information(name) for name in names]
SymbolInformations(names) == [i \in 1..Len(names) |-> lsp_symbol_information(names[i])]

\* definition
definition(names) == Returned(ListOrNone("Locations", NotNone(Locations(names))))

\* type_definition
type_definition(names) ==
    Returned(ListOrNone("Locations", NotNone(Locations(names))))

\* highlight
highlight(names) ==
    LET lsp_ranges == [i \in 1..Len(names) |-> lsp_range(names[i])]
        highlight_names == NotNone(lsp_ranges)
    IN  Returned(ListOrNone("DocumentHighlights", highlight_names))

\* hover
hover(options, capabilities, hover_text) ==
    LET markup == _choose_markup(options, capabilities) IN
    IF markup.raised # "" THEN Raised(markup.raised)
    ELSE IF hover_text = "" THEN Returned(None)
    ELSE Returned([kind |-> "Hover",
                   items |-> <<[kind |-> markup.kind, value |-> hover_text]>>])

\* references
references(names) == Returned(ListOrNone("Locations", NotNone(Locations(names))))

\* document_symbol
document_symbol(capabilities, names) ==
    IF get_capability(capabilities.hierarchical_document_symbol_support, FALSE)
    THEN Returned(ListOrNone("DocumentSymbols", lsp_document_symbols(names)))
    ELSE Returned(ListOrNone("SymbolInformation",
             NotNone(SymbolInformations(
                         SelectSeq(names, LAMBDA n : n.type # "param")))))

----------------------------------------------------------------------------
(* workspace_symbol *)

\* _ignore_folder
_ignore_folder(path_check, jedi_ignore_folders) ==
    \E i \in 1..Len(jedi_ignore_folders) :
        Contains(path_check, Slash \o jedi_ignore_folders[i] \o Slash)

\* the names workspace_symbol keeps
unignored_names(names, workspace_root, ignore_folders) ==
    SelectSeq(names,
        LAMBDA name :
            /\ name.module_path # NoPath
            /\ StartsWith(PathStr(name.module_path), workspace_root)
            /\ ~ _ignore_folder(PathStr(name.module_path), ignore_folders))

\* itertools.islice(xs, n)
islice(xs, n) == SubSeq(xs, 1, IF n < Len(xs) THEN n ELSE Len(xs))

\* LimitSymbols with the test max_symbols >= 0
LimitSymbols_NonNegative(_symbols, max_symbols) ==
    IF max_symbols >= 0 THEN islice(_symbols, max_symbols) ELSE _symbols

\* the symbols kept: at most max_symbols when it is positive, else all
LimitSymbols(_symbols, max_symbols) ==
    IF max_symbols > 0 THEN islice(_symbols, max_symbols) ELSE _symbols

\* workspace_symbol: the result, and whether the engine was queried
workspace_symbol(options, server_project, workspace_root, names) ==
    IF server_project = NoProject
    THEN [result |-> Returned(None), queried |-> FALSE]
    ELSE
        LET kept == unignored_names(names, workspace_root,
                                    options.workspace.symbols.ignore_folders)
            _symbols == NotNone(SymbolInformations(kept))
            symbols == LimitSymbols(_symbols, options.workspace.symbols.max_symbols)
        IN  [result |-> Returned(ListOrNone("SymbolInformation", symbols)),
             queried |-> TRUE]

----------------------------------------------------------------------------
(* Refactorings.  The engine either raises or returns a refactoring, whose  *)
(* document changes (text_edit_utils.lsp_document_changes) may be empty.    *)

RefactoringOutcomes == {"RefactoringError", "NoChanges", "Changes"}

\* the exceptions code_action catches around each refactoring
CodeActionCaught == {"RefactoringError", "AttributeError", "IndexError"}

\* text_edit_utils.lsp_document_changes(server.workspace, refactoring)
lsp_document_changes(outcome) ==
    IF outcome = "Changes" THEN <<"edit">> ELSE <<>>

\* rename
rename(outcome) ==
    IF outcome = "RefactoringError" THEN Returned(None)
    ELSE IF outcome \notin {"NoChanges", "Changes"} THEN Raised(outcome)
    ELSE LET changes == lsp_document_changes(outcome) IN
         Returned(IF changes # <<>>
                  THEN [kind |-> "WorkspaceEdit", items |-> changes]
                  ELSE None)

\* one try/except/else block of code_action: the changes of a refactoring
RefactoringChanges(outcome) ==
    IF outcome \in CodeActionCaught THEN <<>> ELSE lsp_document_changes(outcome)

\* the inline block: a range over several lines raises RefactoringError
\* before the engine is called
InlineChanges(single_line, outcome) ==
    IF ~ single_line THEN RefactoringChanges("RefactoringError")
    ELSE RefactoringChanges(outcome)

CodeAction(title, kind, changes) ==
    IF changes # <<>>
    THEN <<[title |-> title, kind |-> kind, edit |-> changes]>>
    ELSE <<>>

\* code_action giving up at the first refactoring that fails
code_action_GiveUp(options, single_line, inline, extract_variable, extract_function) ==
    LET failed(outcome) == outcome \in CodeActionCaught
        inline_changes == InlineChanges(single_line, inline)
        extract_variable_changes == RefactoringChanges(extract_variable)
        extract_function_changes == RefactoringChanges(extract_function)
        code_actions ==
            CodeAction(<<"Inline variable">>, "refactor.inline", inline_changes)
            \o CodeAction(<<"Extract expression into variable",
                            options.code_action.name_extract_variable>>,
                          "refactor.extract", extract_variable_changes)
            \o CodeAction(<<"Extract expression into function",
                            options.code_action.name_extract_function>>,
                          "refactor.extract", extract_function_changes)
    IN  IF (single_line /\ failed(inline)) \/ failed(extract_variable)
           \/ failed(extract_function)
        THEN Returned(None)
        ELSE Returned(ListOrNone("CodeActions", code_actions))

\* code_action
code_action(options, single_line, inline, extract_variable, extract_function) ==
    LET inline_changes == InlineChanges(single_line, inline)
        extract_variable_changes == RefactoringChanges(extract_variable)
        extract_function_changes == RefactoringChanges(extract_function)
        code_actions ==
            CodeAction(<<"Inline variable">>, "refactor.inline", inline_changes)
            \o CodeAction(<<"Extract expression into variable",
                            options.code_action.name_extract_variable>>,
                          "refactor.extract", extract_variable_changes)
            \o CodeAction(<<"Extract expression into function",
                            options.code_action.name_extract_function>>,
                          "refactor.extract", extract_function_changes)
    IN  Returned(ListOrNone("CodeActions", code_actions))

----------------------------------------------------------------------------
(* Diagnostics *)

NotPublished == [sent |-> FALSE, uri |-> "", diagnostics |-> <<>>]

\* server.publish_diagnostics(uri, diagnostics)
publish_diagnostics(uri, diagnostics) ==
    [sent |-> TRUE, uri |-> uri, diagnostics |-> diagnostics]

\* _publish_diagnostics: one diagnostic for each syntax error of the document
_publish_diagnostics(uri, errors) ==
    publish_diagnostics(uri, [i \in 1..Len(errors) |-> [diagnostic |-> errors[i]]])

\* the handler registered for a notification, run on it
RunNotification(handler, uri, errors) ==
    IF handler \in {"did_open_diagnostics", "did_change_diagnostics",
                    "did_save_diagnostics"}
    THEN _publish_diagnostics(uri, errors)
    ELSE IF handler = "did_close_diagnostics"
    THEN publish_diagnostics(uri, <<>>)
    ELSE NotPublished

----------------------------------------------------------------------------
(* Inputs of the requests *)

Uris == {"file:///w/a", "file:///w/f"}

\* the names jedi may report
AllNames == Range(EngineNames)

\* the completions jedi reports, by name
CompletionNames == <<"a", "_p">>
Completions ==
    { SelectSeq(CompletionNames, LAMBDA c : c \in S) : S \in SUBSET Range(CompletionNames) }

Signatures == { <<>>, <<"f(x)">>, <<"f(x)", "f(x, y)">> }

HoverTexts == {"", "doc"}

SyntaxErrors == { <<>>, <<"E1">> }

\* the record of a request, before the handler fills it in
Blank ==
    [method |-> "", params |-> NotGiven, uri |-> "", names |-> <<>>,
     completions |-> <<>>,
     is_import_context |-> FALSE, signatures |-> <<>>, hover_text |-> "",
     label |-> "", single_line |-> TRUE, refactorings |-> <<>>, errors |-> <<>>,
     queried |-> FALSE, raised |-> "", response |-> None,
     published |-> NotPublished]

Handled(request, result) ==
    [request EXCEPT !.raised = result.raised, !.response = result.response]

----------------------------------------------------------------------------
(* The state machine *)

Init ==
    /\ initialized = FALSE
    /\ initialization_options = Unset
    /\ project = Unset
    /\ features = NoFeatures
    /\ root_path = NoRoot
    /\ client_capabilities = DefaultCapabilities
    /\ messages = [shown |-> <<>>, logged |-> <<>>]
    /\ most_recent_completions = {}
    /\ last = Blank

\* JediLanguageServerProtocol.lsp_initialize; the client sends initialize once
Initialize ==
    /\ ~ initialized
    /\ \E params \in InitializeParams :
        LET parsed == ParseInitializationOptions(params.initialization_options) IN
        /\ initialization_options' = parsed.options
        /\ messages' = [shown |-> messages.shown \o parsed.shown,
                        logged |-> messages.logged \o parsed.logged]
        /\ features' = RegisterFeatures(parsed.options)
        /\ root_path' = params.root_path
        /\ client_capabilities' = params.capabilities
        /\ project' = MakeProject(params.root_path, parsed.options)
        /\ last' = [Blank EXCEPT !.method = "initialize",
                                 !.params = params.initialization_options,
                                 !.response = [kind |-> "InitializeResult",
                                               items |-> <<>>]]
    /\ initialized' = TRUE
    /\ UNCHANGED most_recent_completions

ServerUnchanged ==
    UNCHANGED <<initialized, initialization_options, project, features, root_path,
                client_capabilities, messages>>

\* the server takes the next message once the one before is answered
Idle == initialized /\ last = Blank

CompletionItemResolve ==
    /\ Idle
    /\ \E label \in Range(CompletionNames) :
        last' = Handled([Blank EXCEPT !.method = "completionItem/resolve",
                                      !.label = label],
                        completion_item_resolve(initialization_options,
                            client_capabilities, most_recent_completions, label))
    /\ UNCHANGED most_recent_completions
    /\ ServerUnchanged

Completion ==
    /\ Idle
    /\ \E completions_jedi_raw \in Completions, is_import_context \in BOOLEAN :
        LET done == completion(initialization_options, client_capabilities,
                               most_recent_completions, completions_jedi_raw,
                               is_import_context)
        IN  /\ last' = Handled([Blank EXCEPT !.method = "textDocument/completion",
                                             !.completions = completions_jedi_raw,
                                             !.is_import_context = is_import_context],
                               done.result)
            /\ most_recent_completions' = done.cache
    /\ ServerUnchanged

SignatureHelp ==
    /\ Idle
    /\ \E signatures_jedi \in Signatures :
        last' = Handled([Blank EXCEPT !.method = "textDocument/signatureHelp",
                                      !.signatures = signatures_jedi],
                        signature_help(initialization_options, client_capabilities,
                                       signatures_jedi))
    /\ UNCHANGED most_recent_completions
    /\ ServerUnchanged

Definition ==
    /\ Idle
    /\ \E names \in Results(AllNames) :
        last' = Handled([Blank EXCEPT !.method = "textDocument/definition",
                                      !.names = names],
                        definition(names))
    /\ UNCHANGED most_recent_completions
    /\ ServerUnchanged

TypeDefinition ==
    /\ Idle
    /\ \E names \in Results(AllNames) :
        last' = Handled([Blank EXCEPT !.method = "textDocument/typeDefinition",
                                      !.names = names],
                        type_definition(names))
    /\ UNCHANGED most_recent_completions
    /\ ServerUnchanged

Highlight ==
    /\ Idle
    /\ \E names \in Results(AllNames) :
        last' = Handled([Blank EXCEPT !.method = "textDocument/documentHighlight",
                                      !.names = names],
                        highlight(names))
    /\ UNCHANGED most_recent_completions
    /\ ServerUnchanged

\* hover is registered by lsp_initialize only when hover.enable is set
Hover ==
    /\ Idle
    /\ features.hover
    /\ \E hover_text \in HoverTexts :
        last' = Handled([Blank EXCEPT !.method = "textDocument/hover",
                                      !.hover_text = hover_text],
                        hover(initialization_options, client_capabilities, hover_text))
    /\ UNCHANGED most_recent_completions
    /\ ServerUnchanged

References ==
    /\ Idle
    /\ \E names \in Results(AllNames) :
        last' = Handled([Blank EXCEPT !.method = "textDocument/references",
                                      !.names = names],
                        references(names))
    /\ UNCHANGED most_recent_completions
    /\ ServerUnchanged

DocumentSymbol ==
    /\ Idle
    /\ \E names \in Results(AllNames) :
        last' = Handled([Blank EXCEPT !.method = "textDocument/documentSymbol",
                                      !.names = names],
                        document_symbol(client_capabilities, names))
    /\ UNCHANGED most_recent_completions
    /\ ServerUnchanged

WorkspaceSymbol ==
    /\ Idle
    /\ \E names \in Results(AllNames) :
        LET done == workspace_symbol(initialization_options, project, root_path, names)
        IN  last' = Handled([Blank EXCEPT !.method = "workspace/symbol",
                                          !.names = IF done.queried THEN names ELSE <<>>,
                                          !.queried = done.queried],
                            done.result)
    /\ UNCHANGED most_recent_completions
    /\ ServerUnchanged

Rename ==
    /\ Idle
    /\ \E outcome \in RefactoringOutcomes :
        last' = Handled([Blank EXCEPT !.method = "textDocument/rename",
                                      !.refactorings = <<outcome>>],
                        rename(outcome))
    /\ UNCHANGED most_recent_completions
    /\ ServerUnchanged

CodeActionRequest ==
    /\ Idle
    /\ \E single_line \in BOOLEAN, inline \in RefactoringOutcomes,
          extract_variable \in RefactoringOutcomes,
          extract_function \in RefactoringOutcomes :
        last' = Handled([Blank EXCEPT !.method = "textDocument/codeAction",
                                      !.single_line = single_line,
                                      !.refactorings =
                                          <<inline, extract_variable, extract_function>>],
                        code_action(initialization_options, single_line, inline,
                                    extract_variable, extract_function))
    /\ UNCHANGED most_recent_completions
    /\ ServerUnchanged

\* did_change_configuration does nothing
DidChangeConfiguration ==
    /\ Idle
    /\ last' = [Blank EXCEPT !.method = "workspace/didChangeConfiguration"]
    /\ UNCHANGED most_recent_completions
    /\ ServerUnchanged

Notified(method, handler, uri, errors) ==
    [Blank EXCEPT !.method = method, !.uri = uri, !.errors = errors,
                  !.published = RunNotification(handler, uri, errors)]

DidOpen ==
    /\ Idle
    /\ \E uri \in Uris, errors \in SyntaxErrors :
        last' = Notified("textDocument/didOpen", features.did_open, uri, errors)
    /\ UNCHANGED most_recent_completions
    /\ ServerUnchanged

DidChange ==
    /\ Idle
    /\ \E uri \in Uris, errors \in SyntaxErrors :
        last' = Notified("textDocument/didChange", features.did_change, uri, errors)
    /\ UNCHANGED most_recent_completions
    /\ ServerUnchanged

DidSave ==
    /\ Idle
    /\ \E uri \in Uris, errors \in SyntaxErrors :
        last' = Notified("textDocument/didSave", features.did_save, uri, errors)
    /\ UNCHANGED most_recent_completions
    /\ ServerUnchanged

DidClose ==
    /\ Idle
    /\ \E uri \in Uris, errors \in SyntaxErrors :
        last' = Notified("textDocument/didClose", features.did_close, uri, errors)
    /\ UNCHANGED most_recent_completions
    /\ ServerUnchanged

\* the transport sends the handler's result, or its error, to the client
Respond ==
    /\ last # Blank
    /\ last' = Blank
    /\ UNCHANGED most_recent_completions
    /\ ServerUnchanged

Next ==
    \/ Initialize
    \/ CompletionItemResolve
    \/ Completion
    \/ SignatureHelp
    \/ Definition
    \/ TypeDefinition
    \/ Highlight
    \/ Hover
    \/ References
    \/ DocumentSymbol
    \/ WorkspaceSymbol
    \/ Rename
    \/ CodeActionRequest
    \/ DidChangeConfiguration
    \/ DidOpen
    \/ DidChange
    \/ DidSave
    \/ DidClose
    \/ Respond

Spec == Init /\ [][Next]_vars

----------------------------------------------------------------------------
(* Properties *)

\* C1: when the client's initialization options fail validation,
\* lsp_initialize still returns the initialize result: the server's options are
\* exactly the defaults, one error message is shown and the same message is
\* logged, and the handlers are registered (those the defaults select).
InvalidOptionsFallBackToDefaults ==
    (last.method = "initialize" /\ ~ last.params.valid) =>
        /\ initialized
        /\ last.raised = ""
        /\ last.response.kind = "InitializeResult"
        /\ initialization_options = DefaultOptions
        /\ Len(messages.shown) = 1
        /\ messages.shown[1].msg_type = "Error"
        /\ messages.logged = messages.shown
        /\ features = [did_open |-> "did_open_diagnostics",
                       did_change |-> "did_change_diagnostics",
                       did_save |-> "did_save_diagnostics",
                       did_close |-> "did_close_diagnostics",
                       hover |-> TRUE]

\* C1 witness: initialize was handled with options that do not validate, which
\* differ from the defaults, and the message was shown
InvalidOptionsInitialized ==
    /\ last.method = "initialize"
    /\ ~ last.params.valid
    /\ last.params.value # DefaultOptions
    /\ messages.shown # <<>>

\* the engine yielded nothing for the request handled last
EngineResultEmpty ==
    \/ /\ last.method = "textDocument/completion"
       /\ last.completions = <<>>
    \/ /\ last.method = "textDocument/signatureHelp"
       /\ last.signatures = <<>>
    \/ /\ last.method \in {"textDocument/definition", "textDocument/typeDefinition",
                           "textDocument/documentHighlight", "textDocument/references",
                           "textDocument/documentSymbol", "workspace/symbol"}
       /\ last.names = <<>>
    \/ /\ last.method = "textDocument/hover"
       /\ last.hover_text = ""
    \/ /\ last.method = "textDocument/rename"
       /\ last.refactorings = <<"NoChanges">>
    \/ /\ last.method = "textDocument/codeAction"
       /\ last.refactorings = <<"NoChanges", "NoChanges", "NoChanges">>

\* C2: for every supported request type, when the engine yields no result the
\* handler returns None, and never an empty list or container.
EmptyEngineResultYieldsNone ==
    EngineResultEmpty => (last.raised = "" /\ last.response = None)

\* C3: a RefactoringError of the engine never leaves the handler: rename
\* returns None, and code_action leaves out only the action whose refactoring
\* failed, returning the others in the order inline, extract variable,
\* extract function.
RefactoringErrorContained ==
    /\ (last.method = "textDocument/rename"
        /\ last.refactorings = <<"RefactoringError">>) =>
           (last.raised = "" /\ last.response = None)
    /\ last.method = "textDocument/codeAction" =>
        LET produced(i) == /\ last.refactorings[i] = "Changes"
                           /\ (i = 1 => last.single_line)
            titles ==
                (IF produced(1) THEN <<"Inline variable">> ELSE <<>>)
                \o (IF produced(2) THEN <<"Extract expression into variable">> ELSE <<>>)
                \o (IF produced(3) THEN <<"Extract expression into function">> ELSE <<>>)
        IN  /\ last.raised = ""
            /\ [i \in 1..Len(last.response.items) |-> last.response.items[i].title[1]]
                   = titles

\* C3 witness: code_action returned the extract actions after the inline
\* refactoring failed
InlineFailedOthersReturned ==
    /\ last.method = "textDocument/codeAction"
    /\ last.single_line
    /\ last.refactorings = <<"RefactoringError", "Changes", "Changes">>
    /\ Len(last.response.items) = 2

\* C4: after initialization a didOpen, didChange or didSave notification
\* publishes diagnostics, for the notification's URI, exactly when
\* diagnostics.enable and the toggle of that event are both set.
DiagnosticsPublishedIffEnabled ==
    LET diagnostics == initialization_options.diagnostics
        expected(toggle) ==
            /\ last.published.sent <=> (diagnostics.enable /\ toggle)
            /\ last.published.sent => last.published.uri = last.uri
    IN  /\ last.method = "textDocument/didOpen" => expected(diagnostics.did_open)
        /\ last.method = "textDocument/didChange" => expected(diagnostics.did_change)
        /\ last.method = "textDocument/didSave" => expected(diagnostics.did_save)

\* C4 witness: a didChange notification published nothing although its own
\* toggle is set, because diagnostics.enable is not
DidChangeSilentWhenDisabled ==
    /\ last.method = "textDocument/didChange"
    /\ initialization_options.diagnostics.did_change
    /\ ~ initialization_options.diagnostics.enable
    /\ ~ last.published.sent

\* C5: the project is constructed once, by initialize, from the workspace
\* root, the environment path and the extra paths (None without a workspace
\* root), and no handler run afterwards replaces or modifies it.
ProjectConstructedOnce ==
    /\ [](~ initialized => project = Unset)
    /\ [](initialized =>
            project = IF root_path = NoRoot THEN NoProject
                      ELSE [path |-> root_path,
                            environment_path |->
                                initialization_options.workspace.environment_path,
                            added_sys_path |->
                                initialization_options.workspace.extra_paths,
                            smart_sys_path |-> TRUE,
                            load_unsafe_extensions |-> FALSE])
    /\ [][initialized => project' = project]_vars

\* C5 witness: a handler has run after initialize, in a server without a
\* workspace root
HandledWithoutProject ==
    /\ initialized
    /\ last.method \notin {"", "initialize"}
    /\ root_path = NoRoot
    /\ project = NoProject

WorkspaceSymbolLimit ==
    last.method = "workspace/symbol" =>
        IF project = NoProject
        THEN ~ last.queried /\ last.response = None /\ last.raised = ""
        ELSE
            LET symbols == initialization_options.workspace.symbols
                convertible ==
                    SelectSeq(unignored_names(last.names, root_path,
                                              symbols.ignore_folders),
                              LAMBDA n : n.pos)
                count == IF symbols.max_symbols > 0
                            /\ symbols.max_symbols < Len(convertible)
                         THEN symbols.max_symbols ELSE Len(convertible)
                returned == last.response.items
            IN  /\ last.queried
                /\ last.raised = ""
                /\ Len(returned) = count
                /\ \A i \in 1..count : returned[i].of = convertible[i].name
                /\ symbols.max_symbols > 0 => Len(returned) <= symbols.max_symbols

\* C7 witness: more symbols than max_symbols were found and max_symbols of
\* them were returned
WorkspaceSymbolsTruncated ==
    /\ last.method = "workspace/symbol"
    /\ last.queried
    /\ initialization_options.workspace.symbols.max_symbols = 1
    /\ Cardinality({ i \in 1..Len(last.names) :
                       /\ last.names[i].pos
                       /\ last.names[i].module_path \in {<<W, <<"a">>>>, <<W, <<"f">>>>} }) = 2
    /\ Len(last.response.items) = 1

\* the name of the engine a returned symbol was converted from
NameOf(symbol) == CHOOSE n \in AllNames : n.name = symbol.of

\* the components of an absolute POSIX path string (the inverse of PathStr)
RECURSIVE SplitFrom(_, _, _)
SplitFrom(s, i, cur) ==
    IF i > Len(s) THEN (IF cur = <<>> THEN <<>> ELSE <<cur>>)
    ELSE IF s[i] = "/"
         THEN (IF cur = <<>> THEN <<>> ELSE <<cur>>) \o SplitFrom(s, i + 1, <<>>)
         ELSE SplitFrom(s, i + 1, Append(cur, s[i]))

PathParts(s) == SplitFrom(s, 1, <<>>)

\* path lies inside the directory root: the components of root are a proper
\* prefix of the components of path
InsideDirectory(path, root) ==
    LET rootParts == PathParts(root) IN
    /\ Len(rootParts) < Len(path)
    /\ SubSeq(path, 1, Len(rootParts)) = rootParts

\* C8: every symbol workspace_symbol returns has a module path, lies inside
\* the workspace root directory, and has no ignored folder among the
\* directories of its path.
WorkspaceSymbolsInsideWorkspace ==
    last.method = "workspace/symbol" =>
        \A i \in 1..Len(last.response.items) :
            LET path == NameOf(last.response.items[i]).module_path
                ignore_folders ==
                    initialization_options.workspace.symbols.ignore_folders
            IN  /\ path # NoPath
                /\ InsideDirectory(path, root_path)
                /\ \A d \in 1..(Len(path) - 1) : path[d] \notin Range(ignore_folders)

\* the markup kind a response carries, one for each of its items
ResponseKinds ==
    [i \in 1..Len(last.response.items) |->
        LET item == last.response.items[i] IN
        CASE last.method = "textDocument/completion" -> item.markup_kind
          [] last.method = "textDocument/hover" -> item.kind
          [] OTHER -> item.documentation]

\* C9: _choose_markup always yields a markup kind: the preferred kind when it
\* is in the list the client advertises ([PlainText] when it advertises
\* none), otherwise the first of the list, so always a kind of the list.
ChooseMarkupYieldsSupportedKind ==
    last.method \in {"completionItem/resolve", "textDocument/completion",
                     "textDocument/signatureHelp", "textDocument/hover"} =>
        LET advertised == client_capabilities.documentation_format
            supported == IF advertised.present THEN advertised.value
                         ELSE <<"plaintext">>
            preferred == initialization_options.markup_kind_preferred
        IN  /\ last.raised # "IndexError"
            /\ \A i \in 1..Len(last.response.items) :
                /\ ResponseKinds[i] \in Range(supported)
                /\ ResponseKinds[i] = IF preferred \in Range(supported)
                                      THEN preferred ELSE supported[1]

\* C10: the documentHighlight handler returns names only when there are more
\* than one: with one reference that has a range in the file, or none, it
\* returns None.
HighlightOnlySeveralNames ==
    (/\ last.method = "textDocument/documentHighlight"
     /\ Cardinality({ i \in 1..Len(last.names) : last.names[i].pos }) <= 1) =>
        last.response = None

\* C11: the completion handler enables snippets exactly when the client
\* advertises snippet support, disable_snippets is not set and the cursor is
\* not in an import context, and every item of the response carries that
\* same value.
SnippetsEnabledIffSupported ==
    (last.method = "textDocument/completion" /\ last.raised = "") =>
        LET advertised == client_capabilities.snippet_support
            expected ==
                /\ advertised.present
                /\ advertised.value
                /\ ~ initialization_options.completion.disable_snippets
                /\ ~ last.is_import_context
        IN  \A i \in 1..Len(last.response.items) :
                last.response.items[i].enable_snippets = expected

\* C11 witness: a completion response of two items, both without snippets
\* although the client supports them and they are not disabled, because the
\* cursor is in an import context
SnippetsOffInImportContext ==
    /\ last.method = "textDocument/completion"
    /\ last.is_import_context
    /\ client_capabilities.snippet_support = Advertised(TRUE)
    /\ ~ initialization_options.completion.disable_snippets
    /\ Len(last.response.items) = 2
    /\ \A i \in 1..2 : ~ last.response.items[i].enable_snippets

\* C12: with diagnostics.enable set, a didClose notification publishes an
\* empty diagnostics list for the closed URI whatever the did_open,
\* did_change and did_save toggles are, so the diagnostics published last for
\* that URI are empty; with diagnostics.enable not set it publishes nothing.
DidClosePublishesEmpty ==
    last.method = "textDocument/didClose" =>
        IF initialization_options.diagnostics.enable
        THEN last.published = [sent |-> TRUE, uri |-> last.uri, diagnostics |-> <<>>]
        ELSE ~ last.published.sent

\* C12 witness: didClose cleared the diagnostics of a document that has a
\* syntax error, in a server with every toggle off
DidCloseClearedWithTogglesOff ==
    /\ last.method = "textDocument/didClose"
    /\ initialization_options.diagnostics =
           [enable |-> TRUE, did_open |-> FALSE, did_change |-> FALSE,
            did_save |-> FALSE]
    /\ last.errors # <<>>
    /\ last.published.sent
    /\ last.published.uri = last.uri
    /\ last.published.diagnostics = <<>>

====
